---------------------------- MODULE Spec2Model ----------------------------
(***************************************************************************)
(* Model of src/diffusers/pipelines/model_manager.py: the ModelManager     *)
(* registry, the CustomOffloadHook / UserCustomOffloadHook pair attached   *)
(* to every registered model, and the AutoOffloadStrategy that selects the *)
(* models to offload before a forward pass.                                *)
(*                                                                         *)
(* Sizes are small integers (bytes); size_estimation_margin is kept in     *)
(* tenths, so `size * (1 + margin)` is the integer size * (10 + margin10)  *)
(* in tenths of a byte.  With sizes below 10 and the margins used here     *)
(* every comparison the code makes in floating point has the same outcome  *)
(* as the exact comparison made in the model.                              *)
(***************************************************************************)
EXTENDS Integers, Sequences, FiniteSets, TLC

(***************************************************************************)
(* Bounds of the model.                                                    *)
(***************************************************************************)
MaxFree == 3        \* largest value returned by torch.cuda.mem_get_info
MaxHooks == 3       \* longest list handed to a direct strategy call
MaxSize == 4        \* largest footprint in a direct strategy call
Capacity == 4       \* memory of the device, in the unit of the footprints

(***************************************************************************)
(* Values.                                                                 *)
(***************************************************************************)
Ids == {"a", "b", "c"}
Modules == {"m1", "m2", "m3"}
\* the (model_id, model) pairs add is called with: every id with a model of
\* its own, and id "a" also with the model of "b"
AddArgs == {<<"a", "m1">>, <<"b", "m2">>, <<"c", "m3">>, <<"a", "m2">>}
None == "None"
NoIndex == -1

\* sum of nelement * element_size over parameters and buffers
get_memory_footprint(m) ==
    CASE m = "m1" -> 3
      [] m = "m2" -> 2
      [] OTHER -> 1

\* torch.device values: a type and an index (NoIndex when the index is omitted)
Dev(t, i) == [type |-> t, index |-> i]
CPU == Dev("cpu", NoIndex)
NoDevice == Dev("none", NoIndex)
InvalidDevice == Dev("bogus", NoIndex)
DeviceArgs == {Dev("cuda", NoIndex), Dev("cuda", 1), InvalidDevice}

\* size_estimation_margin, in tenths; DefaultMargin is the default 0.1
DefaultMargin == 1
Margins == {0, DefaultMargin}

\* hook objects are identified by <<generation, position in all_hooks>>
NoHook == <<0, 0>>
\* the value None of a list-valued attribute (model_hooks, other_hooks)
NoList == <<NoHook>>

\* the record of one call of the strategy; NoCall when it was not called
NoCall ==
    [called |-> FALSE, queried |-> FALSE, margin |-> 0, size |-> 0,
     free |-> 0, hooks |-> <<>>, selection |-> <<>>]

\* CustomOffloadHook.offload_strategy: an AutoOffloadStrategy, or None
Strategy(margin) == [isNone |-> FALSE, size_estimation_margin |-> margin]
NoStrategy == [isNone |-> TRUE, size_estimation_margin |-> 0]

\* no table returned
NoTable == <<[id |-> None, model |-> None, device |-> NoDevice, size |-> 0 - 1]>>

VARIABLES
    models,                 \* ModelManager.models: sequence of [id, model]
    model_hooks,            \* ModelManager.model_hooks: NoList or hook ids
    auto_offload_enabled,   \* ModelManager._auto_offload_enabled
    auto_offload_device,    \* ModelManager._auto_offload_device (NoDevice: unset)
    heap,                   \* the live hook objects, by hook id
    hf_hook,                \* module._hf_hook of every module (NoHook: none)
    device,                 \* module.device of every module
    last                    \* what the last call did and returned

vars == <<models, model_hooks, auto_offload_enabled, auto_offload_device,
          heap, hf_hook, device, last>>

(***************************************************************************)
(* The world as one record, so that a method is a function from world to   *)
(* world and a call inside a method is function application.  events and   *)
(* err are the trace and the exception of the call in progress.            *)
(***************************************************************************)
World ==
    [models |-> models, model_hooks |-> model_hooks,
     enabled |-> auto_offload_enabled, auto_device |-> auto_offload_device,
     heap |-> heap, hf_hook |-> hf_hook, device |-> device,
     events |-> <<>>, err |-> None, call |-> NoCall,
     args_in |-> NoDevice, args |-> NoDevice, out |-> NoTable]

Event(e, m, d) == [ev |-> e, model |-> m, dev |-> d]
Log(w, e, m, d) == [w EXCEPT !.events = Append(@, Event(e, m, d))]

RECURSIVE SeqToSet(_)
SeqToSet(s) == IF s = <<>> THEN {} ELSE {Head(s)} \cup SeqToSet(Tail(s))

RECURSIVE SelectSeq2(_, _)
\* the list comprehension [x for x in s if x in keep]
SelectSeq2(s, keep) ==
    IF s = <<>> THEN <<>>
    ELSE IF Head(s) \in keep THEN <<Head(s)>> \o SelectSeq2(Tail(s), keep)
         ELSE SelectSeq2(Tail(s), keep)

(***************************************************************************)
(* torch / accelerate primitives.                                          *)
(***************************************************************************)
\* module.to(d)
ModuleTo(w, m, d) == Log([w EXCEPT !.device[m] = d], "to", m, d)

\* accelerate.utils.memory.clear_device_cache()
clear_device_cache(w) == Log(w, "clear_device_cache", None, NoDevice)

\* variant of init_hook that leaves the module where it is
init_hook_Stay(w, m) == w

\* CustomOffloadHook.init_hook
init_hook(w, m) == ModuleTo(w, m, CPU)

\* accelerate.hooks.remove_hook_from_module: drops module._hf_hook if present
remove_hook_from_module(w, m) ==
    IF w.hf_hook[m] # NoHook
    THEN Log([w EXCEPT !.hf_hook[m] = NoHook], "remove_hook", m, NoDevice)
    ELSE w

\* accelerate.hooks.add_hook_to_module: runs hook.init_hook(module) and
\* installs the hook as module._hf_hook, replacing any hook already there
add_hook_to_module(w, m, h) ==
    LET w1 == init_hook(w, m)
    IN Log([w1 EXCEPT !.hf_hook[m] = h], "add_hook", m, NoDevice)

(***************************************************************************)
(* UserCustomOffloadHook.                                                  *)
(***************************************************************************)
\* variant of offload that also takes the hook off the model
hook_offload_Detach(w, h) ==
    remove_hook_from_module(init_hook(w, w.heap[h].model), w.heap[h].model)

hook_offload(w, h) == init_hook(w, w.heap[h].model)

hook_attach(w, h) ==
    LET w1 == add_hook_to_module(w, w.heap[h].model, h)
    IN [w1 EXCEPT !.heap[h].hook_model_id = w.heap[h].model_id]

hook_remove(w, h) ==
    LET w1 == remove_hook_from_module(w, w.heap[h].model)
    IN [w1 EXCEPT !.heap[h].hook_model_id = None]

\* CustomOffloadHook.add_other_hook
add_other_hook(w, h, other) ==
    [w EXCEPT !.heap[h].other_hooks =
        IF @ = NoList THEN <<other>> ELSE Append(@, other)]


(***************************************************************************)
(* AutoOffloadStrategy.  A hook is seen by the strategy as                 *)
(* [model_id, size, hook]: hook.model_id, get_memory_footprint(hook.model) *)
(* and the hook object itself.  Sizes compared with the margin applied are *)
(* in tenths (suffix 10).                                                  *)
(***************************************************************************)
HookView(id, sz, h) == [model_id |-> id, size |-> sz, hook |-> h]

\* current_module_size = get_memory_footprint(model) * (1 + margin)
current_module_size10(size, margin) == size * (10 + margin)

\* the test `current_module_size < mem_on_device` that ends the call early
FitsOnDevice(size10, mem_on_device) == size10 < 10 * mem_on_device

RECURSIVE InsertDesc(_, _)
\* x placed after every element at least as large: a stable descending sort
InsertDesc(x, s) ==
    IF s = <<>> THEN <<x>>
    ELSE IF Head(s).size < x.size THEN <<x>> \o s
         ELSE <<Head(s)>> \o InsertDesc(x, Tail(s))

RECURSIVE SortDesc(_, _)
SortDesc(s, acc) ==
    IF s = <<>> THEN acc ELSE SortDesc(Tail(s), InsertDesc(Head(s), acc))

\* module_sizes = dict(sorted(..., key=size, reverse=True))
module_sizes(hooks) == SortDesc(hooks, <<>>)

RECURSIVE combinations(_, _)
\* itertools.combinations(s, r), in the order itertools yields them
combinations(s, r) ==
    IF r = 0 THEN << <<>> >>
    ELSE IF Len(s) < r THEN <<>>
    ELSE LET withHead == combinations(Tail(s), r - 1)
         IN [i \in 1..Len(withHead) |-> <<Head(s)>> \o withHead[i]]
            \o combinations(Tail(s), r)

RECURSIVE AllCombinations(_, _)
\* the candidates in the order of the two nested loops: r = 1 .. len(model_ids)
AllCombinations(s, r) ==
    IF r > Len(s) THEN <<>>
    ELSE combinations(s, r) \o AllCombinations(s, r + 1)

RECURSIVE SumSizes(_)
SumSizes(s) == IF s = <<>> THEN 0 ELSE Head(s).size + SumSizes(Tail(s))

\* `candidate_size < min_memory_offload`: the candidate frees too little
TooSmall(candidate_size, min_memory_offload10) ==
    10 * candidate_size < min_memory_offload10

\* variant of Improves that keeps the first feasible candidate
Improves_FirstFeasible(best, candidate_size) == ~best.found

\* variant of Improves that lets a later candidate of the same size win
Improves_OnTies(best, candidate_size) ==
    ~best.found \/ candidate_size <= best.size

\* `best_candidate is None or candidate_size < best_size`
Improves(best, candidate_size) == ~best.found \/ candidate_size < best.size

RECURSIVE SearchLoop(_, _, _)
SearchLoop(cands, min_memory_offload10, best) ==
    IF cands = <<>> THEN best
    ELSE LET c == Head(cands)
             candidate_size == SumSizes(c)
             nbest == IF TooSmall(candidate_size, min_memory_offload10) THEN best
                      ELSE IF Improves(best, candidate_size)
                           THEN [found |-> TRUE, cand |-> c, size |-> candidate_size]
                           ELSE best
         IN SearchLoop(Tail(cands), min_memory_offload10, nbest)

\* best_candidate (found = FALSE stands for None)
search_best_candidate(sizes, min_memory_offload10) ==
    SearchLoop(AllCombinations(sizes, 1), min_memory_offload10,
               [found |-> FALSE, cand |-> <<>>, size |-> 0])

RECURSIVE FilterByIds(_, _)
\* [hook for hook in hooks if hook.model_id in best_offload_model_ids]
FilterByIds(hooks, ids) ==
    IF hooks = <<>> THEN <<>>
    ELSE IF Head(hooks).model_id \in ids
         THEN <<Head(hooks)>> \o FilterByIds(Tail(hooks), ids)
         ELSE FilterByIds(Tail(hooks), ids)

\* variant of hooks_to_offload that offloads nothing when no candidate is found
hooks_to_offload_NoFallback(hooks, best) ==
    IF ~best.found THEN <<>>
    ELSE FilterByIds(hooks, {best.cand[i].model_id : i \in 1..Len(best.cand)})

\* the hooks to offload when the search has returned `best`
hooks_to_offload(hooks, best) ==
    IF ~best.found THEN hooks
    ELSE FilterByIds(hooks, {best.cand[i].model_id : i \in 1..Len(best.cand)})

\* AutoOffloadStrategy.__call__: the list of hooks it returns
AutoOffloadStrategy(margin, hooks, size, mem_on_device) ==
    IF Len(hooks) = 0 THEN <<>>
    ELSE LET size10 == current_module_size10(size, margin)
         IN IF FitsOnDevice(size10, mem_on_device) THEN <<>>
            ELSE LET min_memory_offload10 == size10 - 10 * mem_on_device
                     best == search_best_candidate(module_sizes(hooks),
                                                   min_memory_offload10)
                 IN hooks_to_offload(hooks, best)


(***************************************************************************)
(* CustomOffloadHook.pre_forward, run by module.forward of a hooked module.*)
(***************************************************************************)
\* the device the arguments of a forward call arrive on: the caller builds
\* them on the cpu
ArgDevices == {CPU}

\* variant of send_to_device that hands the arguments on as they are
send_to_device_Keep(w, m, d) == Log(w, "send_to_device", m, d)

\* accelerate.utils.send_to_device(args, d), send_to_device(kwargs, d): the
\* arguments of the call of module m, moved to d
send_to_device(w, m, d) == Log([w EXCEPT !.args = d], "send_to_device", m, d)

RECURSIVE OnDevice(_, _, _)
\* [hook for hook in self.other_hooks if hook.model.device == execution_device]
OnDevice(w, hs, execution_device) ==
    IF hs = <<>> THEN <<>>
    ELSE LET o == Head(hs)
             rest == OnDevice(w, Tail(hs), execution_device)
         IN IF w.device[w.heap[o].model] = execution_device
            THEN <<HookView(w.heap[o].model_id,
                            get_memory_footprint(w.heap[o].model), o)>> \o rest
            ELSE rest

\* self.offload_strategy(hooks=..., model=module, ...): the call is recorded,
\* torch.cuda.mem_get_info is reached only with a non-empty list
CallRecord(margin, hooks, size, mem_on_device) ==
    [called |-> TRUE, queried |-> Len(hooks) # 0, margin |-> margin,
     size |-> size, free |-> IF Len(hooks) # 0 THEN mem_on_device ELSE 0,
     hooks |-> hooks,
     selection |-> AutoOffloadStrategy(margin, hooks, size, mem_on_device)]

CallStrategy(w, strategy, hooks, m, mem_on_device) ==
    LET rec == CallRecord(strategy.size_estimation_margin, hooks,
                          get_memory_footprint(m), mem_on_device)
        w1 == Log(w, "offload_strategy", m, NoDevice)
        w2 == IF rec.queried THEN Log(w1, "mem_get_info", m, NoDevice) ELSE w1
    IN [w2 EXCEPT !.call = rec]

RECURSIVE OffloadLoop_ClearEach(_, _)
\* variant of OffloadLoop that clears the device cache after every offload
OffloadLoop_ClearEach(w, sel) ==
    IF sel = <<>> THEN w
    ELSE OffloadLoop_ClearEach(
             clear_device_cache(hook_offload(w, Head(sel).hook)), Tail(sel))

RECURSIVE OffloadLoop(_, _)
\* for hook in hooks_to_offload: hook.offload()
OffloadLoop(w, sel) ==
    IF sel = <<>> THEN w
    ELSE OffloadLoop(hook_offload(w, Head(sel).hook), Tail(sel))

\* variant of OffloadOthers that offloads every hook it passed to the strategy
OffloadOthers_All(w, h, m, mem_on_device) ==
    LET hook == w.heap[h]
        cands == OnDevice(w, hook.other_hooks, hook.execution_device)
        w1 == IF ~hook.offload_strategy.isNone
              THEN CallStrategy(w, hook.offload_strategy, cands, m, mem_on_device)
              ELSE w
        w2 == OffloadLoop(w1, cands)
    IN IF cands # <<>> THEN clear_device_cache(w2) ELSE w2

\* the body of `if self.other_hooks is not None:`
OffloadOthers(w, h, m, mem_on_device) ==
    LET hook == w.heap[h]
        cands == OnDevice(w, hook.other_hooks, hook.execution_device)
        w1 == IF ~hook.offload_strategy.isNone
              THEN CallStrategy(w, hook.offload_strategy, cands, m, mem_on_device)
              ELSE w
        sel == IF ~hook.offload_strategy.isNone THEN w1.call.selection ELSE cands
        w2 == OffloadLoop(w1, sel)
    IN IF sel # <<>> THEN clear_device_cache(w2) ELSE w2

\* variant of pre_forward that offloads the others and leaves the module
\* where it is
pre_forward_NoMove(w, h, m, mem_on_device) ==
    LET hook == w.heap[h]
        w1 == IF w.device[m] # hook.execution_device /\ hook.other_hooks # NoList
              THEN OffloadOthers(w, h, m, mem_on_device)
              ELSE w
    IN send_to_device(w1, m, hook.execution_device)

pre_forward(w, h, m, mem_on_device) ==
    LET hook == w.heap[h]
        w1 == IF w.device[m] # hook.execution_device
              THEN LET w2 == IF hook.other_hooks # NoList
                             THEN OffloadOthers(w, h, m, mem_on_device)
                             ELSE w
                   IN ModuleTo(w2, m, hook.execution_device)
              ELSE w
    IN send_to_device(w1, m, hook.execution_device)

\* module(*args, **kwargs): pre_forward of the attached hook, if any
forward(w, m, mem_on_device) ==
    IF w.hf_hook[m] # NoHook THEN pre_forward(w, w.hf_hook[m], m, mem_on_device)
    ELSE w

(***************************************************************************)
(* ModelManager.                                                           *)
(***************************************************************************)
\* model_id in self.models
HasId(ms, id) == \E i \in 1..Len(ms) : ms[i].id = id

\* torch.device(device) raises on a string that names no device
ValidDevice(d) == d.type \in {"cpu", "cuda"}

\* device.index is None  =>  torch.device(f"{device.type}:{0}")
NormalizeDevice(d) == IF d.index = NoIndex THEN Dev(d.type, 0) ELSE d

RECURSIVE DisableLoop_OffloadOnly(_, _)
\* variant of DisableLoop that offloads and leaves the hooks attached
DisableLoop_OffloadOnly(w, hs) ==
    IF hs = <<>> THEN w
    ELSE DisableLoop_OffloadOnly(hook_offload(w, Head(hs)), Tail(hs))

RECURSIVE DisableLoop(_, _)
\* for hook in self.model_hooks: hook.offload(); hook.remove()
DisableLoop(w, hs) ==
    IF hs = <<>> THEN w
    ELSE DisableLoop(hook_remove(hook_offload(w, Head(hs)), Head(hs)), Tail(hs))

\* variant of disable_auto_cpu_offload that keeps the stored handles
disable_KeepHandles(w) ==
    IF w.model_hooks = NoList THEN [w EXCEPT !.enabled = FALSE]
    ELSE LET w1 == DisableLoop(w, w.model_hooks)
             w2 == IF w.model_hooks # <<>> THEN clear_device_cache(w1) ELSE w1
         IN [w2 EXCEPT !.enabled = FALSE]

\* variant of disable_auto_cpu_offload that clears the cache in any case
disable_ClearAlways(w) ==
    IF w.model_hooks = NoList THEN [w EXCEPT !.enabled = FALSE]
    ELSE LET w1 == DisableLoop(w, w.model_hooks)
             w2 == clear_device_cache(w1)
         IN [w2 EXCEPT !.model_hooks = NoList, !.enabled = FALSE]

disable_auto_cpu_offload(w) ==
    IF w.model_hooks = NoList THEN [w EXCEPT !.enabled = FALSE]
    ELSE LET w1 == DisableLoop(w, w.model_hooks)
             w2 == IF w.model_hooks # <<>> THEN clear_device_cache(w1) ELSE w1
         IN [w2 EXCEPT !.model_hooks = NoList, !.enabled = FALSE]

RECURSIVE StripLoop(_, _)
\* the hooks already on the registered models are removed first
StripLoop(w, ms) ==
    IF ms = <<>> THEN w
    ELSE StripLoop(remove_hook_from_module(w, Head(ms).model), Tail(ms))

\* custom_offload_with_hook: a new CustomOffloadHook and its
\* UserCustomOffloadHook, attached to the model
custom_offload_with_hook(w, h, model_id, model, execution_device, strategy) ==
    LET obj == [model_id |-> model_id, model |-> model,
                execution_device |-> execution_device, other_hooks |-> NoList,
                offload_strategy |-> strategy, hook_model_id |-> None]
        w1 == [w EXCEPT !.heap = (h :> obj) @@ @]
    IN hook_attach(w1, h)

\* the generation of newly created hook objects: they are distinct from
\* every hook object that exists when they are created
NewGeneration(w) ==
    CHOOSE g \in 1..(Cardinality(DOMAIN w.heap) + 1) :
        /\ \A h \in DOMAIN w.heap : h[1] # g
        /\ \A g2 \in 1..(g - 1) : \E h \in DOMAIN w.heap : h[1] = g2

RECURSIVE CreateLoop(_, _, _, _, _)
\* for model_id, model in self.models.items(): all_hooks.append(...)
CreateLoop(w, g, k, execution_device, strategy) ==
    IF k > Len(w.models) THEN w
    ELSE CreateLoop(custom_offload_with_hook(w, <<g, k>>, w.models[k].id,
                                             w.models[k].model,
                                             execution_device, strategy),
                    g, k + 1, execution_device, strategy)

\* other_hook.hook.execution_device == hook.hook.execution_device
SameDevice(w, h, other) ==
    w.heap[other].execution_device = w.heap[h].execution_device

\* variant of OtherHooks that does not leave the hook itself out
OtherHooks_WithSelf(all_hooks, h) == all_hooks

\* other_hooks = [h for h in all_hooks if h is not hook]
OtherHooks(all_hooks, h) == SelectSeq(all_hooks, LAMBDA x : x # h)

RECURSIVE WireOne(_, _, _)
WireOne(w, h, others) ==
    IF others = <<>> THEN w
    ELSE WireOne(IF SameDevice(w, h, Head(others))
                 THEN add_other_hook(w, h, Head(others)) ELSE w,
                 h, Tail(others))

RECURSIVE WireLoop(_, _, _)
\* for hook in all_hooks: ... hook.add_other_hook(other_hook)
WireLoop(w, hs, all_hooks) ==
    IF hs = <<>> THEN w
    ELSE WireLoop(WireOne(w, Head(hs), OtherHooks(all_hooks, Head(hs))),
                  Tail(hs), all_hooks)

enable_auto_cpu_offload(w, dev, margin) ==
    LET w1 == StripLoop(w, w.models)
        w2 == disable_auto_cpu_offload(w1)
    IN IF ~ValidDevice(dev) THEN [w2 EXCEPT !.err = "RuntimeError"]
       ELSE LET d == NormalizeDevice(dev)
                g == NewGeneration(w2)
                w4 == CreateLoop(w2, g, 1, d, Strategy(margin))
                all_hooks == [k \in 1..Len(w.models) |-> <<g, k>>]
                w5 == WireLoop(w4, all_hooks, all_hooks)
            IN [w5 EXCEPT !.model_hooks = all_hooks, !.enabled = TRUE,
                          !.auto_device = d]

\* variant of RewireDevice that re-enables on the first device
RewireDevice_Default(w) == Dev("cuda", NoIndex)

\* the device add and remove re-enable on
RewireDevice(w) == w.auto_device

\* add and remove pass no size_estimation_margin
RewireMargin == DefaultMargin

\* variant of add that binds the id without looking for it first
add_Overwrite(w, model_id, model) ==
    LET w1 == [w EXCEPT !.models =
                   Append(SelectSeq(@, LAMBDA e : e.id # model_id),
                          [id |-> model_id, model |-> model])]
    IN IF w1.enabled
       THEN enable_auto_cpu_offload(w1, RewireDevice(w1), RewireMargin)
       ELSE w1

add(w, model_id, model) ==
    IF ~HasId(w.models, model_id)
    THEN LET w1 == [w EXCEPT !.models = Append(@, [id |-> model_id, model |-> model])]
         IN IF w1.enabled
            THEN enable_auto_cpu_offload(w1, RewireDevice(w1), RewireMargin)
            ELSE w1
    ELSE w

\* self.models.pop(model_id)
Pop(ms, model_id) == SelectSeq(ms, LAMBDA e : e.id # model_id)

\* variant of remove that pops with a default and goes on
remove_PopDefault(w, model_id) ==
    LET w1 == [w EXCEPT !.models = Pop(@, model_id)]
    IN IF w1.enabled
       THEN enable_auto_cpu_offload(w1, RewireDevice(w1), RewireMargin)
       ELSE w1

remove(w, model_id) ==
    IF ~HasId(w.models, model_id) THEN [w EXCEPT !.err = "KeyError"]
    ELSE LET w1 == [w EXCEPT !.models = Pop(@, model_id)]
         IN IF w1.enabled
            THEN enable_auto_cpu_offload(w1, RewireDevice(w1), RewireMargin)
            ELSE w1

\* ModelManager.__repr__: max() over the ids and over the class names of an
\* empty registry raises ValueError; otherwise one row per entry of
\* self.models.items(), with the device and the footprint of the model
repr(w) ==
    IF Len(w.models) = 0 THEN [w EXCEPT !.err = "ValueError"]
    ELSE [w EXCEPT !.out = [i \in 1..Len(w.models) |->
                               [id |-> w.models[i].id,
                                model |-> w.models[i].model,
                                device |-> w.device[w.models[i].model],
                                size |-> get_memory_footprint(w.models[i].model)]]]

(***************************************************************************)
(* Hook objects nothing refers to any more are dropped from the heap.      *)
(***************************************************************************)
Live(w) ==
    LET roots == (IF w.model_hooks = NoList THEN {} ELSE SeqToSet(w.model_hooks))
                 \cup ({w.hf_hook[m] : m \in Modules} \ {NoHook})
    IN roots \cup UNION {IF w.heap[h].other_hooks = NoList THEN {}
                         ELSE SeqToSet(w.heap[h].other_hooks) : h \in roots}

Collect(w) == [w EXCEPT !.heap = [h \in Live(w) |-> w.heap[h]]]

(***************************************************************************)
(* The state machine: one action per call a user of the manager can make.  *)
(***************************************************************************)
Init ==
    /\ models = <<>>
    /\ model_hooks = NoList
    /\ auto_offload_enabled = FALSE
    /\ auto_offload_device = NoDevice
    /\ heap = [h \in {} |-> NoHook]
    /\ hf_hook = [m \in Modules |-> NoHook]
    /\ device = [m \in Modules |-> CPU]
    /\ last = [op |-> "init", id |-> None, model |-> None, dev |-> NoDevice,
               margin |-> 0, err |-> None, call |-> NoCall, events |-> <<>>,
               args_in |-> NoDevice, args |-> NoDevice, out |-> NoTable]

\* the objects of a world, without the trace of the call that produced it
StateOf(w) ==
    <<w.models, w.model_hooks, w.enabled, w.auto_device, w.heap, w.hf_hook,
      w.device>>

\* the variables after a call that left the world w0
Return(w0, op, id, m, dev, margin) ==
    LET w == Collect(w0)
    IN /\ models' = w.models
       /\ model_hooks' = w.model_hooks
       /\ auto_offload_enabled' = w.enabled
       /\ auto_offload_device' = w.auto_device
       /\ heap' = w.heap
       /\ hf_hook' = w.hf_hook
       /\ device' = w.device
       /\ last' = [op |-> op, id |-> id, model |-> m, dev |-> dev,
                   margin |-> margin, err |-> w.err, call |-> w.call,
                   events |-> w.events, args_in |-> w.args_in, args |-> w.args,
                   out |-> w.out]

Add(id, m) ==
    /\ <<id, m>> \in AddArgs
    /\ Return(add(World, id, m), "add", id, m, NoDevice, 0)

Remove(id) ==
    /\ id \in Ids
    /\ Return(remove(World, id), "remove", id, None, NoDevice, 0)

Enable(dev, margin) ==
    /\ dev \in DeviceArgs /\ margin \in Margins
    /\ Return(enable_auto_cpu_offload(World, dev, margin), "enable", None, None,
              dev, margin)

Disable ==
    /\ auto_offload_enabled \in BOOLEAN
    /\ Return(disable_auto_cpu_offload(World), "disable", None, None, NoDevice, 0)

\* the world at the call module(*args, **kwargs) with the arguments on a
Called(w, a) == [w EXCEPT !.args_in = a, !.args = a]

Invoke(m, free, a) ==
    /\ m \in Modules /\ free \in 0..MaxFree /\ a \in ArgDevices
    /\ Return(forward(Called(World, a), m, free), "invoke", None, m, NoDevice, 0)

Next ==
    \/ \E a \in AddArgs : Add(a[1], a[2])
    \/ \E id \in Ids : Remove(id)
    \/ \E dev \in DeviceArgs, margin \in Margins : Enable(dev, margin)
    \/ Disable
    \/ \E m \in Modules, free \in 0..MaxFree, a \in ArgDevices : Invoke(m, free, a)

Spec == Init /\ [][Next]_vars

(***************************************************************************)
(* The same machine with repr(manager) among the calls.                    *)
(***************************************************************************)
Repr ==
    /\ Len(models) \in 0..Cardinality(Ids)
    /\ Return(repr(World), "repr", None, None, NoDevice, 0)

NextRepr ==
    \/ \E a \in AddArgs : Add(a[1], a[2])
    \/ \E id \in Ids : Remove(id)
    \/ \E dev \in DeviceArgs, margin \in Margins : Enable(dev, margin)
    \/ Disable
    \/ \E m \in Modules, free \in 0..MaxFree, a \in ArgDevices : Invoke(m, free, a)
    \/ Repr

SpecRepr == Init /\ [][NextRepr]_vars

(***************************************************************************)
(* The manager on a device whose memory holds nothing but the registered   *)
(* models: torch.cuda.mem_get_info reports the capacity less the           *)
(* footprints of the models that are on the device.  Model m3 may be       *)
(* registered under two ids.                                               *)
(***************************************************************************)
CapIds == {"a", "b", "c", "d"}
CapAddArgs == {<<"a", "m1">>, <<"b", "m2">>, <<"c", "m3">>, <<"d", "m3">>}

\* the footprints of the models that are not on the cpu, each counted once
ResidentTotal(dev) ==
    LET on(m) == IF dev[m] # CPU THEN get_memory_footprint(m) ELSE 0
    IN on("m1") + on("m2") + on("m3")

\* torch.cuda.mem_get_info(index)[0]
mem_get_info(dev) ==
    IF ResidentTotal(dev) <= Capacity THEN Capacity - ResidentTotal(dev) ELSE 0

AddCap(id, m) ==
    /\ <<id, m>> \in CapAddArgs
    /\ Return(add(World, id, m), "add", id, m, NoDevice, 0)

RemoveCap(id) ==
    /\ id \in CapIds
    /\ Return(remove(World, id), "remove", id, None, NoDevice, 0)

EnableCap(margin) ==
    /\ margin \in Margins
    /\ Return(enable_auto_cpu_offload(World, Dev("cuda", NoIndex), margin),
              "enable", None, None, Dev("cuda", NoIndex), margin)

InvokeCap(m) ==
    /\ m \in Modules
    /\ Return(forward(Called(World, CPU), m, mem_get_info(device)),
              "invoke", None, m, NoDevice, 0)

NextCap ==
    \/ \E a \in CapAddArgs : AddCap(a[1], a[2])
    \/ \E id \in CapIds : RemoveCap(id)
    \/ \E margin \in Margins : EnableCap(margin)
    \/ \E m \in Modules : InvokeCap(m)

SpecCap == Init /\ [][NextCap]_vars

(***************************************************************************)
(* The strategy on its own: AutoOffloadStrategy.__call__ applied once to   *)
(* every list of at most MaxHooks hooks with sizes 1..MaxSize, every model *)
(* size, margin and amount of free memory.                                 *)
(***************************************************************************)
HookIds == <<"a", "b", "c", "d", "e">>
StrategyMargins == {0, DefaultMargin, 5, 10}

HookLists ==
    UNION {{[i \in 1..n |-> HookView(HookIds[i], f[i], <<1, i>>)] :
                f \in [1..n -> 1..MaxSize]} : n \in 0..MaxHooks}

InitStrategy ==
    /\ models = <<>>
    /\ model_hooks = NoList
    /\ auto_offload_enabled = FALSE
    /\ auto_offload_device = NoDevice
    /\ heap = [h \in {} |-> NoHook]
    /\ hf_hook = [m \in Modules |-> NoHook]
    /\ device = [m \in Modules |-> CPU]
    /\ \E hooks \in HookLists, size \in 1..MaxSize, margin \in StrategyMargins,
          free \in 0..MaxFree :
         last = [op |-> "input", id |-> None, model |-> None, dev |-> NoDevice,
                 margin |-> 0, err |-> None, events |-> <<>>,
                 args_in |-> NoDevice, args |-> NoDevice, out |-> NoTable,
                 call |-> [called |-> FALSE, queried |-> FALSE,
                           margin |-> margin, size |-> size, free |-> free,
                           hooks |-> hooks, selection |-> <<>>]]

StrategyCall ==
    /\ last.op = "input"
    /\ last' = [last EXCEPT !.op = "strategy",
                            !.call = CallRecord(last.call.margin, last.call.hooks,
                                                last.call.size, last.call.free)]
    /\ UNCHANGED <<models, model_hooks, auto_offload_enabled,
                   auto_offload_device, heap, hf_hook, device>>

NextStrategy == StrategyCall

SpecStrategy == InitStrategy /\ [][NextStrategy]_vars

(***************************************************************************)
(* Vocabulary of the properties.                                           *)
(***************************************************************************)
\* footprint(resource) * (1 + margin) and the deficit of a strategy call, in tenths
Required10(c) == c.size * (10 + c.margin)
Deficit10(c) == Required10(c) - 10 * c.free

RECURSIVE SetTotal(_, _)
\* total footprint of the hooks at the positions S of the list hooks
SetTotal(hooks, S) ==
    IF S = {} THEN 0
    ELSE LET i == CHOOSE j \in S : TRUE
         IN hooks[i].size + SetTotal(hooks, S \ {i})

Positions(hooks) == 1..Len(hooks)
NonEmptySubsets(hooks) == SUBSET Positions(hooks) \ {{}}

\* the subsets of the candidates that free at least the deficit
Feasible(c) ==
    {S \in NonEmptySubsets(c.hooks) : 10 * SetTotal(c.hooks, S) >= Deficit10(c)}

\* the selection is the sub-list of the candidates at the positions S
IsSelection(c, S) ==
    c.selection = SelectSeq2(c.hooks, {c.hooks[i] : i \in S})

\* the modules an operation moved to the cpu, and those it moved at all
MovedTo(events, d) ==
    {events[i].model : i \in {j \in 1..Len(events) :
                                 events[j].ev = "to" /\ events[j].dev = d}}
Count(events, e) == Cardinality({i \in 1..Len(events) : events[i].ev = e})

\* the modules the registry holds
Registered == {models[i].model : i \in 1..Len(models)}

(***************************************************************************)
(* C1 (as claimed): whenever the strategy is called and                    *)
(* footprint * (1 + margin) <= free memory, equality included, it returns  *)
(* the empty selection and the invoke that called it moves no peer off the *)
(* device.  The code tests `<`, so at equality it evicts a peer.           *)
(***************************************************************************)
C1_NoOpFastPath ==
    (last.call.called /\ last.call.queried
        /\ Required10(last.call) <= 10 * last.call.free)
    => /\ last.call.selection = <<>>
       /\ MovedTo(last.events, CPU) = {}

(***************************************************************************)
(* C2: cover minimality.  Whenever required > free and some non-empty      *)
(* subset of the candidates has total footprint >= deficit, the selection  *)
(* is a sub-list of the candidates with total >= deficit, and no non-empty *)
(* subset with total >= deficit has a strictly smaller total.              *)
(***************************************************************************)
C2_CoverMinimality ==
    LET c == last.call
    IN (c.called /\ c.queried /\ Required10(c) > 10 * c.free /\ Feasible(c) # {})
       => /\ \E S \in Feasible(c) : IsSelection(c, S)
          /\ 10 * SumSizes(c.selection) >= Deficit10(c)
          /\ \A S \in Feasible(c) : SumSizes(c.selection) <= SetTotal(c.hooks, S)

\* three candidates of which the two smaller ones are the cheapest cover
C2_Witness ==
    LET c == last.call
    IN /\ last.op = "strategy" /\ c.queried
       /\ Required10(c) > 10 * c.free
       /\ Len(c.hooks) = 3 /\ Len(c.selection) = 2
       /\ \E i \in Positions(c.hooks) :
             /\ 10 * c.hooks[i].size >= Deficit10(c)
             /\ c.hooks[i].size > SumSizes(c.selection)

(***************************************************************************)
(* C3: fallback.  Whenever required > free and the total footprint of all  *)
(* candidates is below the deficit, the strategy returns exactly the full  *)
(* candidate list, no error is reported, and the invoke goes on to move    *)
(* the invoked resource onto the target device after a single query of the *)
(* free memory.                                                            *)
(***************************************************************************)
C3_Fallback ==
    LET c == last.call
    IN (c.called /\ c.queried /\ Required10(c) > 10 * c.free
           /\ 10 * SumSizes(c.hooks) < Deficit10(c))
       => /\ c.selection = c.hooks
          /\ last.err = None
          /\ last.op = "invoke" =>
                /\ device[last.model] = heap[hf_hook[last.model]].execution_device
                /\ device[last.model] # CPU
                /\ MovedTo(last.events, device[last.model]) = {last.model}
                /\ MovedTo(last.events, CPU) =
                       {heap[c.hooks[i].hook].model : i \in Positions(c.hooks)}
                /\ Count(last.events, "mem_get_info") = 1

\* an invoke whose two resident peers together are smaller than the deficit
C3_Witness ==
    LET c == last.call
    IN /\ last.op = "invoke" /\ c.queried
       /\ Len(c.hooks) = 2
       /\ 10 * SumSizes(c.hooks) < Deficit10(c)
       /\ device[last.model] # CPU

(***************************************************************************)
(* C4: round-trip placement.  While auto-offload is enabled, an invocation *)
(* of a registered resource leaves it on the target device, and an         *)
(* invocation of the same resource right after it calls no strategy, moves *)
(* no resource and releases no cache.                                      *)
(***************************************************************************)
C4_RoundTrip ==
    [][(last'.op = "invoke" /\ auto_offload_enabled /\ last'.model \in Registered)
        => /\ device'[last'.model] = auto_offload_device
           /\ (last.op = "invoke" /\ last.model = last'.model)
                 => /\ ~last'.call.called
                    /\ Count(last'.events, "to") = 0
                    /\ Count(last'.events, "clear_device_cache") = 0
                    /\ Count(last'.events, "mem_get_info") = 0
                    /\ device' = device]_vars

\* an invocation that found the resource on the device beside a resident
\* peer, so that nothing was moved
C4_Witness ==
    /\ last.op = "invoke" /\ auto_offload_enabled
    /\ last.model \in Registered
    /\ device[last.model] = auto_offload_device
    /\ Count(last.events, "to") = 0
    /\ \E m \in Registered \ {last.model} : device[m] = auto_offload_device

(***************************************************************************)
(* C5: peer exactness.  Whenever auto-offload is enabled there is one      *)
(* current handle per registry entry, in order, and the peer list of each  *)
(* holds exactly the other current handles with the same target device,    *)
(* each once: never the handle itself, never a handle of a removed entry   *)
(* or of an earlier enable; the relation is symmetric.                     *)
(***************************************************************************)
PeersOf(h) == IF heap[h].other_hooks = NoList THEN <<>> ELSE heap[h].other_hooks

CurrentHandles == IF model_hooks = NoList THEN {} ELSE SeqToSet(model_hooks)

C5_PeerExactness ==
    auto_offload_enabled =>
       /\ model_hooks # NoList
       /\ Len(model_hooks) = Len(models)
       /\ Cardinality(CurrentHandles) = Len(models)
       /\ CurrentHandles \subseteq DOMAIN heap
       /\ \A i \in 1..Len(models) :
             /\ heap[model_hooks[i]].model_id = models[i].id
             /\ heap[model_hooks[i]].model = models[i].model
             /\ heap[model_hooks[i]].execution_device = auto_offload_device
       /\ \A h \in CurrentHandles :
             /\ SeqToSet(PeersOf(h)) =
                   {o \in CurrentHandles \ {h} :
                       heap[o].execution_device = heap[h].execution_device}
             /\ Cardinality(SeqToSet(PeersOf(h))) = Len(PeersOf(h))
             /\ \A o \in SeqToSet(PeersOf(h)) : h \in SeqToSet(PeersOf(o))

\* three entries with two peers each, right after the third was added while
\* auto-offload was enabled
C5_Witness ==
    /\ last.op = "add" /\ last.events # <<>>
    /\ auto_offload_enabled /\ Len(models) = 3
    /\ \A h \in CurrentHandles : Len(PeersOf(h)) = 2

(***************************************************************************)
(* C6: all-or-nothing.  The registry is either enabled, with one stored    *)
(* handle per entry, the Interceptor of a current handle attached to every *)
(* registered resource and none to any other resource, or disabled, with   *)
(* no Interceptor attached and no handles stored; the enabled flag says    *)
(* which.                                                                  *)
(***************************************************************************)
FullyEnabled ==
    /\ model_hooks # NoList
    /\ Len(model_hooks) = Len(models)
    /\ \A i \in 1..Len(models) :
          /\ model_hooks[i] \in DOMAIN heap
          /\ heap[model_hooks[i]].model_id = models[i].id
          /\ heap[model_hooks[i]].model = models[i].model
    /\ \A m \in Modules :
          IF m \in Registered
          THEN /\ hf_hook[m] \in CurrentHandles
               /\ heap[hf_hook[m]].model = m
          ELSE hf_hook[m] = NoHook

FullyDisabled ==
    /\ model_hooks = NoList
    /\ \A m \in Modules : hf_hook[m] = NoHook

C6_AllOrNothing ==
    /\ auto_offload_enabled => FullyEnabled
    /\ ~auto_offload_enabled => FullyDisabled

\* auto-offload switched off half-way by an enable that failed on its device
C6_Witness ==
    /\ last.op = "enable" /\ last.err = "RuntimeError"
    /\ Count(last.events, "remove_hook") = 2
    /\ Len(models) = 2

(***************************************************************************)
(* C7: remove of an id the registry does not hold ends in the not-found    *)
(* error and changes nothing: entries and their order, the enabled flag,   *)
(* the stored handles, every peer list and every placement stay as they    *)
(* were, and nothing is moved or detached.                                 *)
(***************************************************************************)
C7_RemoveUnknown ==
    [][(last'.op = "remove" /\ ~HasId(models, last'.id))
        => /\ last'.err = "KeyError"
           /\ last'.events = <<>>
           /\ UNCHANGED <<models, model_hooks, auto_offload_enabled,
                          auto_offload_device, heap, hf_hook, device>>]_vars

\* a failed remove while auto-offload is enabled and a resource is resident
C7_Witness ==
    /\ last.op = "remove" /\ last.err = "KeyError"
    /\ auto_offload_enabled /\ Len(models) = 2
    /\ \E m \in Registered : device[m] = auto_offload_device

(***************************************************************************)
(* C8: add with an id the registry already holds does nothing: the         *)
(* resource bound to the id and the order of the entries stay, and even    *)
(* when auto-offload is enabled nothing is rewired or moved.               *)
(***************************************************************************)
C8_AddDuplicate ==
    [][(last'.op = "add" /\ HasId(models, last'.id))
        => /\ last'.err = None
           /\ last'.events = <<>>
           /\ UNCHANGED <<models, model_hooks, auto_offload_enabled,
                          auto_offload_device, heap, hf_hook, device>>]_vars

\* add of a held id with another resource, while auto-offload is enabled and
\* a resource is resident on the device
C8_Witness ==
    /\ last.op = "add" /\ last.events = <<>>
    /\ \E i \in 1..Len(models) :
          models[i].id = last.id /\ models[i].model # last.model
    /\ auto_offload_enabled
    /\ \E m \in Registered : device[m] = auto_offload_device

(***************************************************************************)
(* C9: idempotence of disable.  From every reachable state, a second call  *)
(* of disable_auto_cpu_offload right after a first one leaves the state of *)
(* the first, moves and detaches nothing, releases no cache, and no        *)
(* handles are stored.                                                     *)
(***************************************************************************)
Fresh(w) ==
    [w EXCEPT !.events = <<>>, !.err = None, !.call = NoCall,
              !.args_in = NoDevice, !.args = NoDevice, !.out = NoTable]

C9_DisableIdempotent ==
    LET once == Collect(disable_auto_cpu_offload(World))
        twice == Collect(disable_auto_cpu_offload(Fresh(once)))
    IN /\ StateOf(twice) = StateOf(once)
       /\ twice.events = <<>>
       /\ twice.err = None
       /\ twice.model_hooks = NoList
       /\ ~twice.enabled

\* a disable that found nothing to do in a registry that holds resources and
\* had been enabled before
C9_Witness ==
    /\ last.op = "disable" /\ last.events = <<>>
    /\ Len(models) = 2
    /\ auto_offload_device # NoDevice

(***************************************************************************)
(* C10: rewire equivalence.  With auto-offload enabled on device d, add of *)
(* a new id, remove of a held id and enable_auto_cpu_offload(d) each leave *)
(* the state that the registry mutation followed by                        *)
(* disable_auto_cpu_offload() and enable_auto_cpu_offload(d) leaves: the   *)
(* flag stays set, the device stays d, every handle is new, and a removed  *)
(* resource has no Interceptor and is in no peer list.                     *)
(***************************************************************************)
\* the state after disable() and then enable(d, margin) on the world w
DisableThenEnable(w, d, margin) ==
    enable_auto_cpu_offload(Fresh(disable_auto_cpu_offload(w)), d, margin)

\* w2 is enabled on d with handles that did not exist in w
Rewired(w, w2, d) ==
    /\ w2.enabled /\ w2.auto_device = d /\ w2.err = None
    /\ w2.model_hooks # NoList
    /\ SeqToSet(w2.model_hooks) \cap DOMAIN w.heap = {}
    /\ DOMAIN w2.heap = SeqToSet(w2.model_hooks)

C10_RewireEquivalence ==
    auto_offload_enabled =>
       LET d == auto_offload_device
       IN /\ \A a \in AddArgs : ~HasId(models, a[1]) =>
                LET mutated == [World EXCEPT !.models =
                                   Append(@, [id |-> a[1], model |-> a[2]])]
                    got == Collect(add(World, a[1], a[2]))
                    ref == Collect(DisableThenEnable(mutated, d, DefaultMargin))
                IN StateOf(got) = StateOf(ref) /\ Rewired(World, got, d)
          /\ \A id \in Ids : HasId(models, id) =>
                LET mutated == [World EXCEPT !.models = Pop(@, id)]
                    got == Collect(remove(World, id))
                    ref == Collect(DisableThenEnable(mutated, d, DefaultMargin))
                    gone == {models[i].model : i \in 1..Len(models)}
                            \ {got.models[i].model : i \in 1..Len(got.models)}
                IN /\ StateOf(got) = StateOf(ref) /\ Rewired(World, got, d)
                   /\ \A m \in gone :
                         /\ got.hf_hook[m] = NoHook
                         /\ \A h \in DOMAIN got.heap : got.heap[h].model # m
          /\ \A margin \in Margins :
                LET got == Collect(enable_auto_cpu_offload(World, d, margin))
                    ref == Collect(DisableThenEnable(World, d, margin))
                IN StateOf(got) = StateOf(ref) /\ Rewired(World, got, d)

\* a registry enabled on the second device, rewired by an add
C10_Witness ==
    /\ last.op = "add" /\ Count(last.events, "add_hook") = 2
    /\ auto_offload_enabled
    /\ auto_offload_device = Dev("cuda", 1)
    /\ \A h \in CurrentHandles : heap[h].execution_device = Dev("cuda", 1)

(***************************************************************************)
(* C11: ordering within one invoke of an off-device resource.  Every move  *)
(* of a selected peer to the cpu comes before the move of the invoked      *)
(* resource onto the device; the cache is released exactly once, after the *)
(* last of these moves and before the move onto the device, when a peer    *)
(* was evicted, and not at all when none was.                              *)
(***************************************************************************)
EvictAt(events) ==
    {i \in 1..Len(events) : events[i].ev = "to" /\ events[i].dev = CPU}
MoveOnAt(events) ==
    {i \in 1..Len(events) : events[i].ev = "to" /\ events[i].dev # CPU}
ClearAt(events) ==
    {i \in 1..Len(events) : events[i].ev = "clear_device_cache"}

C11_InvokeOrdering ==
    (last.op = "invoke" /\ MoveOnAt(last.events) # {})
    => LET e == last.events
       IN /\ Cardinality(MoveOnAt(e)) = 1
          /\ \A k \in MoveOnAt(e) :
                /\ e[k].model = last.model
                /\ \A i \in EvictAt(e) : i < k
                /\ \A c \in ClearAt(e) :
                      c < k /\ \A i \in EvictAt(e) : i < c
          /\ Cardinality(ClearAt(e)) = IF EvictAt(e) # {} THEN 1 ELSE 0

\* an invoke that evicted two peers and released the cache once
C11_Witness ==
    /\ last.op = "invoke"
    /\ Cardinality(EvictAt(last.events)) = 2
    /\ Cardinality(ClearAt(last.events)) = 1
    /\ MoveOnAt(last.events) # {}

(***************************************************************************)
(* C12 (as claimed): an invoke of a resource that is already on the target *)
(* device moves no resource, queries no device memory, calls no strategy,  *)
(* releases no cache and forwards the arguments unchanged, on the device   *)
(* they came on.                                                           *)
(***************************************************************************)
\* the last call was an invoke of a hooked module that was on its device
ResidentInvoke ==
    /\ last.op = "invoke"
    /\ hf_hook[last.model] # NoHook
    /\ MoveOnAt(last.events) = {}

NothingMoved ==
    /\ Count(last.events, "to") = 0
    /\ Count(last.events, "mem_get_info") = 0
    /\ Count(last.events, "offload_strategy") = 0
    /\ ~last.call.called
    /\ Count(last.events, "clear_device_cache") = 0

C12_ResidentInvokeUnchangedArgs ==
    ResidentInvoke => (NothingMoved /\ last.args = last.args_in)

(***************************************************************************)
(* C12 (amended): an invoke of a resource that is already on the target    *)
(* device moves no resource, queries no device memory, calls no strategy   *)
(* and releases no cache; the arguments are forwarded on the target        *)
(* device, whatever device they came on.                                   *)
(***************************************************************************)
C12_ResidentInvoke ==
    ResidentInvoke =>
       /\ NothingMoved
       /\ device[last.model] = heap[hf_hook[last.model]].execution_device
       /\ last.args = heap[hf_hook[last.model]].execution_device

\* an invoke of a resident resource with arguments that came on the cpu
C12_Witness ==
    /\ ResidentInvoke
    /\ last.args_in = CPU
    /\ last.args # CPU

(***************************************************************************)
(* C13: immediately after enable_auto_cpu_offload returns, and immediately *)
(* after an add of a new id or a remove of a present id made while         *)
(* auto-offload is enabled, every model of the registry is on the cpu,     *)
(* the models that were on the execution device before the call included.  *)
(***************************************************************************)
\* this step is a call that attaches a hook to every registered model
AttachStep ==
    \/ last'.op = "enable" /\ last'.err = None
    \/ last'.op = "add" /\ auto_offload_enabled /\ ~HasId(models, last'.id)
    \/ last'.op = "remove" /\ auto_offload_enabled /\ HasId(models, last'.id)

C13_AttachOffDevice ==
    [][AttachStep => \A i \in 1..Len(models') : device'[models'[i].model] = CPU]_vars

\* an add while enabled that attached hooks to three models, all on the cpu
C13_Witness ==
    /\ last.op = "add" /\ auto_offload_enabled
    /\ Len(models) = 3
    /\ Count(last.events, "add_hook") = 3
    /\ \A m \in Registered : device[m] = CPU

(***************************************************************************)
(* C14: when auto-offload is enabled, disable_auto_cpu_offload moves the   *)
(* model of every stored handle to the cpu and then removes its hook,      *)
(* handle by handle in the stored order; after the last handle it clears   *)
(* the device cache once if and only if there was at least one handle;     *)
(* then the stored handles are None and the enabled flag is false.         *)
(***************************************************************************)
\* the positions in a trace of the moves of a module, in order
ToAt(events) == {i \in 1..Len(events) : events[i].ev = "to"}

\* the k-th smallest member of a set of positions
Nth(S, k) == CHOOSE i \in S : Cardinality({j \in S : j < i}) = k - 1

DisableStep == auto_offload_enabled /\ last'.op = "disable"

DisablePost ==
    LET hs == IF model_hooks = NoList THEN <<>> ELSE model_hooks
        n  == Len(hs)
        e  == last'.events
    IN /\ Cardinality(ToAt(e)) = n
       /\ EvictAt(e) = ToAt(e)
       \* the k-th move is the offload of the k-th handle, and the hook that
       \* is on its model is removed before the next handle is offloaded
       /\ \A k \in 1..n :
             LET i == Nth(ToAt(e), k)
                 m == heap[hs[k]].model
             IN /\ e[i].model = m
                /\ (\A j \in 1..(k - 1) : heap[hs[j]].model # m)
                      => /\ i < Len(e)
                         /\ e[i + 1].ev = "remove_hook"
                         /\ e[i + 1].model = m
       /\ \A i \in 1..Len(e) :
             e[i].ev = "remove_hook" => (i > 1 /\ e[i - 1].ev = "to"
                                            /\ e[i - 1].model = e[i].model)
       /\ \A k \in 1..n : /\ device'[heap[hs[k]].model] = CPU
                          /\ hf_hook'[heap[hs[k]].model] = NoHook
       /\ Cardinality(ClearAt(e)) = IF n > 0 THEN 1 ELSE 0
       /\ \A c \in ClearAt(e) : c = Len(e)
       /\ model_hooks' = NoList
       /\ ~auto_offload_enabled'

C14_DisablePostcondition == [][DisableStep => DisablePost]_vars

\* a disable that offloaded and detached two handles and cleared the cache
C14_Witness ==
    /\ last.op = "disable"
    /\ Count(last.events, "remove_hook") = 2
    /\ Count(last.events, "clear_device_cache") = 1
    /\ model_hooks = NoList /\ ~auto_offload_enabled

(***************************************************************************)
(* C15: in every invoke, each model moved to the cpu is the model of a     *)
(* peer hook of the invoked model, was on the execution device when the    *)
(* invoke began and was selected by the strategy; the invoked model itself *)
(* is never moved to the cpu; no hook whose model is off the device is     *)
(* passed to the strategy; every peer model that was not selected keeps    *)
(* its device and its hook, and a model moved to the cpu keeps its hook.   *)
(***************************************************************************)
\* the models of the hooks of a list of hook views
ModelsOf(views) == {heap[views[i].hook].model : i \in 1..Len(views)}

InvokeStep == last'.op = "invoke" /\ hf_hook[last'.model] # NoHook

EvictionScope ==
    LET m        == last'.model
        h        == hf_hook[m]
        exec     == heap[h].execution_device
        peers    == {heap[o].model : o \in SeqToSet(PeersOf(h))} \ {m}
        evicted  == MovedTo(last'.events, CPU)
        passed   == ModelsOf(last'.call.hooks)
        selected == ModelsOf(last'.call.selection)
    IN /\ evicted \subseteq peers
       /\ \A r \in evicted : device[r] = exec
       /\ evicted \subseteq selected
       /\ m \notin evicted
       /\ \A r \in passed : device[r] = exec
       /\ \A r \in peers \ selected :
             /\ device'[r] = device[r]
             /\ hf_hook'[r] = hf_hook[r]
       /\ \A r \in evicted : hf_hook'[r] = hf_hook[r] /\ hf_hook[r] # NoHook

C15_EvictionScope == [][InvokeStep => EvictionScope]_vars

\* an invoke that moved one peer to the cpu and left another on the device
C15_Witness ==
    /\ last.op = "invoke"
    /\ MovedTo(last.events, CPU) # {}
    /\ Len(last.call.hooks) > Len(last.call.selection)
    /\ \E r \in Registered \ {last.model} : device[r] # CPU

(***************************************************************************)
(* C16: an invoke of a model, whatever its outcome, changes only the       *)
(* devices of models: the registry and its order, the enabled flag, the    *)
(* recorded device, the stored handles, and every hook's peers, strategy   *)
(* and owner id stay as they were, and so do the hooks on the models.      *)
(* The peers of a hook change only in enable, disable, and an add or       *)
(* remove made while auto-offload is enabled.                              *)
(***************************************************************************)
\* other_hooks of every live hook
PeerSets == [h \in DOMAIN heap |-> heap[h].other_hooks]

InvokeFrame ==
    last'.op = "invoke" =>
       /\ models' = models
       /\ auto_offload_enabled' = auto_offload_enabled
       /\ auto_offload_device' = auto_offload_device
       /\ model_hooks' = model_hooks
       /\ heap' = heap
       /\ hf_hook' = hf_hook

PeersFrame ==
    PeerSets' # PeerSets =>
       \/ last'.op \in {"enable", "disable"}
       \/ last'.op \in {"add", "remove"} /\ auto_offload_enabled

C16_InvokeFrame == [][InvokeFrame /\ PeersFrame]_vars

\* an invoke that moved its model onto the device and a peer off it, with
\* three hooks in place
C16_Witness ==
    /\ last.op = "invoke"
    /\ Len(models) = 3 /\ FullyEnabled
    /\ MovedTo(last.events, CPU) # {}
    /\ device[last.model] = auto_offload_device

(***************************************************************************)
(* C17 (as claimed): in every reachable state, the empty registry          *)
(* included, repr(manager) returns a table with one row per entry in       *)
(* insertion order and raises nothing, and it changes neither the registry *)
(* nor the device of any model.  The code raises ValueError on an empty    *)
(* registry.                                                               *)
(***************************************************************************)
ReprPost ==
    /\ last'.err = None
    /\ Len(last'.out) = Len(models)
    /\ \A i \in 1..Len(models) :
          /\ last'.out[i].id = models[i].id
          /\ last'.out[i].device = device[models[i].model]
    /\ UNCHANGED <<models, model_hooks, auto_offload_enabled,
                   auto_offload_device, heap, hf_hook, device>>

C17_ReprTotal == [][last'.op = "repr" => ReprPost]_vars

(***************************************************************************)
(* C18 (as claimed): when the memory of the device is taken only by the    *)
(* registered models, auto-offload is enabled with margin m and every      *)
(* registered model has footprint * (1 + m) <= capacity, then after every  *)
(* invoke, in any sequence of invokes, adds and removes, the footprints of *)
(* the models on the device add up to at most the capacity.  With one      *)
(* model registered under two ids the strategy counts its footprint twice  *)
(* and the device is overfilled.                                           *)
(***************************************************************************)
\* every hooked model fits the device with the margin of its strategy
EveryModelFits ==
    \A h \in CurrentHandles :
        get_memory_footprint(heap[h].model)
            * (10 + heap[h].offload_strategy.size_estimation_margin)
        <= 10 * Capacity

C18_CapacityInvariant ==
    (last.op = "invoke" /\ auto_offload_enabled /\ EveryModelFits)
    => ResidentTotal(device) <= Capacity

(***************************************************************************)
(* C19 (as claimed): the size_estimation_margin passed to                  *)
(* enable_auto_cpu_offload is the margin of the strategy of every current  *)
(* hook until the next call of enable or disable; an add of a new id or a  *)
(* remove of a present id made while enabled keeps it.  add and remove     *)
(* re-enable without a margin, so the hooks they create carry the default. *)
(***************************************************************************)
\* the margins of the strategies of the current hooks
HookMargins ==
    {heap[h].offload_strategy.size_estimation_margin : h \in CurrentHandles}

C19_MarginPersistence ==
    [][(last'.op \in {"add", "remove"} /\ auto_offload_enabled
            /\ CurrentHandles # {})
       => HookMargins' \subseteq HookMargins]_vars

(***************************************************************************)
(* C20: tie-break.  Whenever the strategy searches and some subset of the  *)
(* candidates frees the deficit, no subset that frees the deficit with the *)
(* same total footprint as the selection has fewer members than the        *)
(* selection: among the feasible subsets of minimum total the strategy     *)
(* returns one with the fewest members.                                    *)
(***************************************************************************)
C20_TieBreak ==
    LET c == last.call
    IN (c.called /\ c.queried /\ Required10(c) >= 10 * c.free /\ Feasible(c) # {})
       => /\ \E S \in Feasible(c) :
                IsSelection(c, S) /\ Cardinality(S) = Len(c.selection)
          /\ \A S \in Feasible(c) :
                SetTotal(c.hooks, S) = SumSizes(c.selection)
                   => Cardinality(S) >= Len(c.selection)

\* one candidate frees the deficit alone and two others free it together
\* with the same total; the single one is returned
C20_Witness ==
    LET c == last.call
    IN /\ last.op = "strategy" /\ c.queried
       /\ Required10(c) > 10 * c.free
       /\ Len(c.selection) = 1
       /\ \E S \in Feasible(c) :
             /\ Cardinality(S) = 2
             /\ SetTotal(c.hooks, S) = SumSizes(c.selection)
             /\ \A T \in Feasible(c) : SetTotal(c.hooks, T) >= SetTotal(c.hooks, S)

=============================================================================
